---- MODULE Spec2Model ----
(***************************************************************************)
(* Carbon footprint calculator: the calculation helpers of utilis.py, the  *)
(* Streamlit script of app.py (session state, calculator form, save form,  *)
(* "Saved Footprints" tab) and the persistence functions of database.py.   *)
(*                                                                         *)
(* Numbers.  The program computes in Python floats.  The model computes    *)
(* the same expressions, in the same order, over exact rationals           *)
(* [n |-> numerator, d |-> denominator > 0] kept in lowest terms, so that  *)
(* record equality is numeric equality.  The rounding of binary floating   *)
(* point (at most one unit in the last place per operation) is therefore   *)
(* not represented: "equals" below means equality of the exact values.     *)
(***************************************************************************)
EXTENDS Integers, Sequences, FiniteSets, TLC

VARIABLES
    calculated,   \* st.session_state.calculated
    results,      \* st.session_state.results
    form,         \* widget values of carbon_calculator_form as last submitted
    store,        \* rows of table carbon_footprints, in insertion order
    nextId,       \* next value of the primary-key sequence of carbon_footprints
    now,          \* datetime.now(), in whole ticks
    notice,       \* what the last run of the script reported to the user
    view,         \* the "Saved Footprints" tab as the last run of the script drew it
    observed,     \* history: <<>>, or one earlier calculation as <<(input, outcome)>>
    call,         \* a direct call of one function: its name and arguments
    ret           \* <<>>, or <<the value the last direct call returned>>

vars == <<calculated, results, form, store, nextId, now, notice, view, observed, call, ret>>

\* no direct call
NoCall == [fn |-> "none"]

-----------------------------------------------------------------------------
(* Exact arithmetic standing for Python's float operators.                 *)

Abs(x) == IF x < 0 THEN -x ELSE x

RECURSIVE GCD(_, _)
GCD(a, b) == IF b = 0 THEN a ELSE GCD(b, a % b)

\* n/d in lowest terms, d > 0
Q(n, d) == LET g == GCD(Abs(n), d) IN [n |-> n \div g, d |-> d \div g]

\* the number i
R(i) == [n |-> i, d |-> 1]

\* a + b
RAdd(a, b) ==
    LET g == GCD(a.d, b.d)
        l == (a.d \div g) * b.d
    IN  Q(a.n * (l \div a.d) + b.n * (l \div b.d), l)

\* a * b
RMul(a, b) ==
    LET g1 == GCD(Abs(a.n), b.d)
        g2 == GCD(Abs(b.n), a.d)
    IN  [n |-> (a.n \div g1) * (b.n \div g2), d |-> (a.d \div g2) * (b.d \div g1)]

\* a / b, for b > 0 (Python raises ZeroDivisionError for b = 0)
RDiv(a, b) == RMul(a, [n |-> b.d, d |-> b.n])

\* a >= b: a limit that is not strict
RGe(a, b) == a.n * b.d >= b.n * a.d

\* a > b
RGt(a, b) == a.n * b.d > b.n * a.d

\* sum(values) of a sequence of numbers, left to right from 0
RECURSIVE RSum(_)
RSum(s) == IF s = <<>> THEN R(0) ELSE RAdd(RSum(SubSeq(s, 1, Len(s) - 1)), s[Len(s)])

-----------------------------------------------------------------------------
(* Python dictionaries.  A dict read only by key is a function; a dict     *)
(* that is iterated is a sequence of <<key, value>> items in insertion     *)
(* order.                                                                  *)

\* d.get(key, default)
Get(d, key, default) == IF key \in DOMAIN d THEN d[key] ELSE default

\* d[key] of an ordered dict
Item(d, key) == LET i == CHOOSE j \in 1..Len(d) : d[j][1] = key IN d[i][2]

\* list(d.keys()) of an ordered dict
Keys(d) == [i \in 1..Len(d) |-> d[i][1]]

\* list(d.values()) of an ordered dict
Values(d) == [i \in 1..Len(d) |-> d[i][2]]

-----------------------------------------------------------------------------
(* utilis.py: the two tables                                               *)

EMISSION_FACTORS ==
    [ car_petrol       |-> Q(21, 100),
      car_diesel       |-> Q(18, 100),
      car_electric     |-> Q(5, 100),
      public_transport |-> Q(8, 100),
      motorcycle       |-> Q(11, 100),
      flight_short     |-> Q(24, 100),
      flight_long      |-> Q(18, 100),
      electricity      |-> Q(233, 1000),
      natural_gas      |-> Q(184, 1000),
      meat_beef        |-> Q(60, 10),
      meat_pork        |-> Q(17, 10),
      meat_chicken     |-> Q(9, 10),
      vegetarian       |-> Q(5, 10),
      vegan            |-> Q(4, 10) ]

NATIONAL_AVERAGES ==
    [ UK        |-> R(5200),
      USA       |-> R(16000),
      EU        |-> R(6800),
      World     |-> R(4800),
      China     |-> R(7000),
      India     |-> R(1900),
      Australia |-> R(15000),
      Canada    |-> R(14000) ]

-----------------------------------------------------------------------------
(* utilis.py: the calculation helpers                                      *)

\* an unknown mode charged at factor 1
calculate_transportation_emissions_default_one(transport_type, distance) ==
    RMul(distance, Get(EMISSION_FACTORS, transport_type, R(1)))

calculate_transportation_emissions(transport_type, distance) ==
    RMul(distance, Get(EMISSION_FACTORS, transport_type, R(0)))

\* gas charged at the factor of electricity
calculate_household_emissions_one_factor(electricity_kwh, gas_kwh) ==
    LET electricity_emissions == RMul(electricity_kwh, EMISSION_FACTORS["electricity"])
        gas_emissions == RMul(gas_kwh, EMISSION_FACTORS["electricity"])
    IN  RAdd(electricity_emissions, gas_emissions)

calculate_household_emissions(electricity_kwh, gas_kwh) ==
    LET electricity_emissions == RMul(electricity_kwh, EMISSION_FACTORS["electricity"])
        gas_emissions == RMul(gas_kwh, EMISSION_FACTORS["natural_gas"])
    IN  RAdd(electricity_emissions, gas_emissions)

calculate_food_emissions(diet_type, meals_per_week) ==
    RMul(meals_per_week, Get(EMISSION_FACTORS, diet_type, R(0)))

\* the f-strings of get_footprint_comparison, as their parts
Message(before, country, after) == <<before, country, after>>

\* an unknown country compared with the default of the parameter country
national_average_uk(country) == Get(NATIONAL_AVERAGES, country, NATIONAL_AVERAGES["UK"])

\* NATIONAL_AVERAGES.get(country, NATIONAL_AVERAGES["World"])
national_average(country) == Get(NATIONAL_AVERAGES, country, NATIONAL_AVERAGES["World"])

get_footprint_comparison(annual_footprint, country) ==
    LET national_avg == national_average(country)
        percentage == RMul(RDiv(annual_footprint, national_avg), R(100))
        band ==
            IF RGt(percentage, R(120)) THEN
                [message |-> Message("Your carbon footprint is significantly higher than the ",
                                     country, " average."),
                 status |-> "high"]
            ELSE IF RGt(percentage, R(100)) THEN
                [message |-> Message("Your carbon footprint is above the ",
                                     country, " average."),
                 status |-> "above_avg"]
            ELSE IF RGt(percentage, R(80)) THEN
                [message |-> Message("Your carbon footprint is close to the ",
                                     country, " average."),
                 status |-> "average"]
            ELSE IF RGt(percentage, R(50)) THEN
                [message |-> Message("Your carbon footprint is below the ",
                                     country, " average. Good job!"),
                 status |-> "below_avg"]
            ELSE
                [message |-> Message("Your carbon footprint is significantly lower than the ",
                                     country, " average. Excellent!"),
                 status |-> "low"]
    IN  [country |-> country,
         national_avg |-> national_avg,
         percentage |-> percentage,
         message |-> band.message,
         status |-> band.status]

DrivingAdvice ==
    "Consider carpooling, using public transport, or cycling for short journeys to reduce your driving emissions."
FlightAdvice ==
    "Reduce the number of flights you take. Consider trains for shorter journeys or virtual meetings instead of business travel."
ElectricityAdvice ==
    "Reduce your electricity consumption by using energy-efficient appliances, LED bulbs, and being mindful of standby power."
\* (the degree sign of the source text is left out)
GasAdvice ==
    "Improve your home insulation and consider lowering your heating thermostat by 1-2 C to save energy."
BeefAdvice ==
    "Consider reducing beef consumption. Beef has one of the highest carbon footprints among food items."
MeatFreeAdvice ==
    "Try introducing 1-2 meat-free days per week to reduce your food-related carbon footprint."

GeneralAdvice ==
    << "Consider using renewable energy sources for your home.",
       "Look into carbon offsetting programs for emissions you can't reduce.",
       "Reduce, reuse, and recycle to minimize waste-related emissions.",
       "Support local businesses to reduce transportation emissions from goods." >>

\* recommendations.insert(0, text) under its condition
PrependIf(recommendations, cond, text) ==
    IF cond THEN <<text>> \o recommendations ELSE recommendations

\* recommendations.append(text) under its condition
AppendIf(recommendations, cond, text) ==
    IF cond THEN Append(recommendations, text) ELSE recommendations

\* no general list: an empty list stays empty
OrNothing(recommendations) == recommendations

\* "if not recommendations:", the general list taking the place of an empty one
OrGeneral(recommendations) ==
    IF recommendations = <<>> THEN GeneralAdvice ELSE recommendations

get_recommendations(emissions_data) ==
    LET e(k) == Get(emissions_data, k, R(0))
        r0 == <<>>
        r1 == AppendIf(r0, RGt(e("car_petrol"), R(30)) \/ RGt(e("car_diesel"), R(30)),
                       DrivingAdvice)
        r2 == AppendIf(r1, RGt(e("flight_short"), R(50)) \/ RGt(e("flight_long"), R(100)),
                       FlightAdvice)
        r3 == AppendIf(r2, RGt(e("electricity"), R(40)), ElectricityAdvice)
        r4 == AppendIf(r3, RGt(e("natural_gas"), R(30)), GasAdvice)
        r5 == AppendIf(r4, RGt(e("meat_beef"), R(15)), BeefAdvice)
        r6 == AppendIf(r5, RGt(RAdd(RAdd(e("meat_beef"), e("meat_pork")), e("meat_chicken")),
                               R(20)),
                       MeatFreeAdvice)
    IN  OrGeneral(r6)

\* one row of the DataFrame
Row(category, timeframe, emissions) ==
    [Category |-> category, Timeframe |-> timeframe, Emissions |-> emissions]

\* categories without emissions left out
format_emissions_for_download_nonzero(data) ==
    LET Emits(item) == item[2] # R(0)
        kept == SelectSeq(data.weekly_breakdown, Emits)
        weekly == [i \in 1..Len(kept) |-> Row(kept[i][1], "Weekly", kept[i][2])]
    IN  weekly \o
        << Row("Total", "Weekly", data.weekly_total),
           Row("Total", "Annual", data.annual_total),
           Row("National Average", "Annual", data.comparison.national_avg) >>

format_emissions_for_download(data) ==
    LET weekly == [i \in 1..Len(data.weekly_breakdown) |->
                      Row(data.weekly_breakdown[i][1], "Weekly", data.weekly_breakdown[i][2])]
    IN  weekly \o
        << Row("Total", "Weekly", data.weekly_total),
           Row("Total", "Annual", data.annual_total),
           Row("National Average", "Annual", data.comparison.national_avg) >>

-----------------------------------------------------------------------------
(* database.py                                                             *)

MaxRecords == 2
MaxId == 3
MaxClock == 1

\* CarbonFootprint(...) as save_footprint builds it, with the id and the
\* timestamp the insert assigns
CarbonFootprint(id, user_name, email, r, timestamp) ==
    [ id                      |-> id,
      user_name               |-> user_name,
      email                   |-> email,
      weekly_total            |-> r.weekly_total,
      annual_total            |-> r.annual_total,
      transport_emissions     |-> Item(r.weekly_breakdown, "Transportation"),
      short_flights_emissions |-> Item(r.weekly_breakdown, "Short Flights"),
      long_flights_emissions  |-> Item(r.weekly_breakdown, "Long Flights"),
      household_emissions     |-> Item(r.weekly_breakdown, "Household Energy"),
      diet_emissions          |-> Item(r.weekly_breakdown, "Diet"),
      country                 |-> r.comparison.country,
      timestamp               |-> timestamp ]

\* query.first(): <<>> for None, or <<the first row>>
First(rows) == IF rows = <<>> THEN <<>> ELSE <<rows[1]>>

\* timestamp.strftime("%Y-%m-%d %H:%M:%S"): the text of a time of whole seconds
strftime(t) == [format |-> "%Y-%m-%d %H:%M:%S", seconds |-> t]

\* CarbonFootprint.to_dict
to_dict(f) ==
    [ id                      |-> f.id,
      user_name               |-> f.user_name,
      email                   |-> f.email,
      weekly_total            |-> f.weekly_total,
      annual_total            |-> f.annual_total,
      transport_emissions     |-> f.transport_emissions,
      short_flights_emissions |-> f.short_flights_emissions,
      long_flights_emissions  |-> f.long_flights_emissions,
      household_emissions     |-> f.household_emissions,
      diet_emissions          |-> f.diet_emissions,
      country                 |-> f.country,
      timestamp               |-> strftime(f.timestamp) ]

\* [footprint.to_dict() for footprint in footprints]
ToDicts(footprints) == [i \in 1..Len(footprints) |-> to_dict(footprints[i])]

get_all_footprints == ToDicts(store)

\* get_footprints_by_email with .first() in the place of .all()
get_footprints_by_email_first(email) ==
    LET P(f) == f.email = email IN ToDicts(First(SelectSeq(store, P)))

get_footprints_by_email(email) ==
    LET P(f) == f.email = email IN ToDicts(SelectSeq(store, P))

get_footprint_by_id(footprint_id) ==
    LET P(f) == f.id = footprint_id
        footprint == First(SelectSeq(store, P))
    IN  IF footprint # <<>> THEN <<to_dict(footprint[1])>> ELSE <<>>

\* save_footprint numbering the new row by the count of rows
save_footprint_counting(user_name, email, r) ==
    /\ Len(store) < MaxRecords
    /\ nextId <= MaxId
    /\ store' = Append(store, CarbonFootprint(Len(store) + 1, user_name, email, r, now))
    /\ nextId' = nextId + 1

\* save_footprint overwriting the row that has the same email, if there is one
save_footprint_upsert(user_name, email, r) ==
    LET Same(f) == f.email = email
        old == SelectSeq(store, Same)
        Put(f) == IF f.email = email
                  THEN CarbonFootprint(f.id, user_name, email, r, now)
                  ELSE f
    IN  /\ Len(store) < MaxRecords
        /\ nextId <= MaxId
        /\ store' = IF old = <<>>
                    THEN Append(store, CarbonFootprint(nextId, user_name, email, r, now))
                    ELSE [i \in 1..Len(store) |-> Put(store[i])]
        /\ nextId' = nextId + 1

\* save_footprint returning the new id
save_footprint_ok(user_name, email, r) ==
    /\ Len(store) < MaxRecords
    /\ nextId <= MaxId
    /\ store' = Append(store, CarbonFootprint(nextId, user_name, email, r, now))
    /\ nextId' = nextId + 1

\* save_footprint raising: the insert is rolled back; the sequence value it
\* drew, if it drew one, is not returned
save_footprint_raises ==
    /\ store' = store
    /\ nextId' \in {nextId, nextId + 1}
    /\ nextId' <= MaxId + 1

\* delete_footprint returning True also when it found no row
delete_footprint_true(footprint_id) ==
    LET Other(f) == f.id # footprint_id
    IN  store' = SelectSeq(store, Other) /\ ret' = <<TRUE>>

\* delete_footprint: TRUE and the row gone, or FALSE and nothing changed
delete_footprint(footprint_id) ==
    LET P(f) == f.id = footprint_id
        Other(f) == f.id # footprint_id
        footprint == First(SelectSeq(store, P))
    IN  IF footprint # <<>>
        THEN store' = SelectSeq(store, Other) /\ ret' = <<TRUE>>
        ELSE store' = store /\ ret' = <<FALSE>>

\* delete_footprint raising: the delete is rolled back, no value is returned
delete_footprint_raises ==
    /\ store' = store
    /\ ret' = <<>>

-----------------------------------------------------------------------------
(* app.py: the "Saved Footprints" tab.  Every run of the script draws it; *)
(* the block under "Search by Email" is drawn only in a run in which the   *)
(* "Search" button reads True.  Of what is drawn the model keeps the       *)
(* widgets the user can act on next, not the tables and charts.            *)

\* the tab as a run draws it: the label of the widget that set the run off,
\* as the tuple of its parts, and <<>> or <<the selectbox and the delete
\* button under "Search by Email">>
Page(trigger, search) == [trigger |-> trigger, search |-> search]

\* the tab as the first run of a session draws it, set off by no widget
FirstPage == Page(<<>>, <<>>)

\* f"Delete Footprint ID: {selected_id}"
DeleteLabel(selected_id) == <<"Delete Footprint ID: ", selected_id>>

\* the block of "Search by Email" in a run set off by a widget of the tab:
\* search_button and delete_button are what the two st.button calls return.
\* The selectbox is drawn only in a run in which "Search" was pressed, so it
\* never holds a choice of the user: its value is its first option.
SearchByEmail(trigger, search_button, search_email, delete_button) ==
    IF search_button /\ search_email # ""
    THEN \/ \* an exception inside the try block
            /\ notice' = "search_error"
            /\ UNCHANGED <<store, ret>>
            /\ view' = Page(trigger, <<>>)
         \/ LET footprints == get_footprints_by_email(search_email)
                options == [i \in 1..Len(footprints) |-> footprints[i].id]
                selected_id == options[1]
                shown == [email |-> search_email, options |-> options,
                          selected_id |-> selected_id]
            IN  IF footprints # <<>>
                THEN IF delete_button
                     THEN /\ delete_footprint(selected_id)
                          /\ IF ret'[1]
                             THEN notice' = "none" /\ view' = Page(trigger, <<>>)
                             ELSE notice' = "delete_failed" /\ view' = Page(trigger, <<shown>>)
                     ELSE /\ notice' = "search_found"
                          /\ UNCHANGED <<store, ret>>
                          /\ view' = Page(trigger, <<shown>>)
                ELSE /\ notice' = "search_none"
                     /\ UNCHANGED <<store, ret>>
                     /\ view' = Page(trigger, <<>>)
    ELSE /\ notice' = "none"
         /\ UNCHANGED <<store, ret>>
         /\ view' = Page(trigger, <<>>)

-----------------------------------------------------------------------------
(* app.py: the calculator form                                             *)

short_flight_distance == 1000
long_flight_distance == 6000
MaxMeals == 21

TransportOptions == <<"car_petrol", "car_diesel", "car_electric", "public_transport", "motorcycle">>
DietOptions == <<"meat_beef", "meat_pork", "meat_chicken", "vegetarian", "vegan">>
CountryOptions == <<"UK", "USA", "EU", "World", "China", "India", "Australia", "Canada">>

\* the values of the widgets of carbon_calculator_form in one run of the script;
\* meals[i] is the number input of DietOptions[i]
Input(transport_type, weekly_distance, short_flights, long_flights, electricity_kwh, gas_kwh, meals, country) ==
    [ transport_type  |-> transport_type,
      weekly_distance |-> weekly_distance,
      short_flights   |-> short_flights,
      long_flights    |-> long_flights,
      electricity_kwh |-> electricity_kwh,
      gas_kwh         |-> gas_kwh,
      diet_inputs     |-> [i \in 1..Len(DietOptions) |-> <<DietOptions[i], meals[i]>>],
      country         |-> country ]

\* every widget at its default: the first option, the minimum value
DefaultForm ==
    Input(TransportOptions[1], R(0), 0, 0, R(0), R(0), <<0, 0, 0, 0, 0>>, CountryOptions[1])

\* st.session_state.results = {}
EmptyResults == <<>>

\* an ordered dict as a dict read by key
AsDict(d) == [k \in {d[i][1] : i \in 1..Len(d)} |-> Item(d, k)]

\* short flights left as a yearly amount
flight_short_emissions_per_year(short_flights) ==
    RMul(R(short_flights * short_flight_distance), EMISSION_FACTORS["flight_short"])

\* flight emissions, converted to weekly
flight_short_emissions(short_flights) ==
    RDiv(RMul(R(short_flights * short_flight_distance), EMISSION_FACTORS["flight_short"]),
         R(52))

flight_long_emissions(long_flights) ==
    RDiv(RMul(R(long_flights * long_flight_distance), EMISSION_FACTORS["flight_long"]),
         R(52))

\* the dict the loop over diet_inputs.items() fills
diet_emissions(diet_inputs) ==
    [i \in 1..Len(diet_inputs) |->
        <<diet_inputs[i][1], calculate_food_emissions(diet_inputs[i][1], R(diet_inputs[i][2]))>>]

\* long flights left out of the total
weekly_total_without_long_flights(transport, flight_short, flight_long, household, total_diet) ==
    RAdd(RAdd(RAdd(transport, flight_short), household), total_diet)

weekly_total(transport, flight_short, flight_long, household, total_diet) ==
    RAdd(RAdd(RAdd(RAdd(transport, flight_short), flight_long), household), total_diet)

annual_total(weekly) == RMul(weekly, R(52))

weekly_breakdown(transport, flight_short, flight_long, household, total_diet) ==
    << <<"Transportation", transport>>,
       <<"Short Flights", flight_short>>,
       <<"Long Flights", flight_long>>,
       <<"Household Energy", household>>,
       <<"Diet", total_diet>> >>

\* a dict display: of two items with one key the later one stays
detailed_emissions(inp, transport, flight_short, flight_long, diet) ==
    AsDict(diet) @@
    [ flight_short |-> flight_short,
      flight_long  |-> flight_long,
      electricity  |-> RMul(inp.electricity_kwh, EMISSION_FACTORS["electricity"]),
      natural_gas  |-> RMul(inp.gas_kwh, EMISSION_FACTORS["natural_gas"]) ] @@
    (inp.transport_type :> transport)

\* the body of "if submitted:", up to the results bundle
Bundle(inp, timestamp) ==
    LET transport == calculate_transportation_emissions(inp.transport_type, inp.weekly_distance)
        flight_short == flight_short_emissions(inp.short_flights)
        flight_long == flight_long_emissions(inp.long_flights)
        household == calculate_household_emissions(inp.electricity_kwh, inp.gas_kwh)
        diet == diet_emissions(inp.diet_inputs)
        total_diet == RSum(Values(diet))
        weekly == weekly_total(transport, flight_short, flight_long, household, total_diet)
        annual == annual_total(weekly)
    IN  [ weekly_total     |-> weekly,
          annual_total     |-> annual,
          weekly_breakdown |->
              weekly_breakdown(transport, flight_short, flight_long, household, total_diet),
          comparison       |-> get_footprint_comparison(annual, inp.country),
          recommendations  |->
              get_recommendations(
                  detailed_emissions(inp, transport, flight_short, flight_long, diet)),
          timestamp        |-> timestamp ]

\* the list of recommendations kept from one run to the next and appended to
CalculateKeepingList(inp) ==
    /\ results' = [Bundle(inp, now) EXCEPT
                      !.recommendations =
                          IF calculated THEN results.recommendations \o @ ELSE @]
    /\ calculated' = TRUE
    /\ form' = inp
    /\ notice' = "calculated"
    /\ UNCHANGED <<store, nextId, now, call, ret>>
    /\ view' = Page(<<"Calculate My Footprint">>, <<>>)

\* the comparison computed by the first calculation only and kept after it
CalculateKeepingComparison(inp) ==
    /\ results' = [Bundle(inp, now) EXCEPT
                      !.comparison = IF calculated THEN results.comparison ELSE @]
    /\ calculated' = TRUE
    /\ form' = inp
    /\ notice' = "calculated"
    /\ UNCHANGED <<store, nextId, now, call, ret>>
    /\ view' = Page(<<"Calculate My Footprint">>, <<>>)

\* one run of the script with "Calculate My Footprint" pressed
Calculate(inp) ==
    /\ results' = Bundle(inp, now)
    /\ calculated' = TRUE
    /\ form' = inp
    /\ notice' = "calculated"
    /\ UNCHANGED <<store, nextId, now, call, ret>>
    /\ view' = Page(<<"Calculate My Footprint">>, <<>>)

-----------------------------------------------------------------------------
(* app.py: the save form, and the environment                              *)

\* the save form clearing the session when save_footprint raises
SaveResettingOnError(user_name, email) ==
    /\ calculated
    /\ IF user_name # "" /\ email # ""
       THEN \/ /\ save_footprint_ok(user_name, email, results)
               /\ notice' = "saved"
               /\ UNCHANGED <<calculated, results>>
            \/ /\ save_footprint_raises
               /\ notice' = "save_error"
               /\ calculated' = FALSE
               /\ results' = EmptyResults
       ELSE /\ notice' = "save_warning"
            /\ UNCHANGED <<calculated, results, store, nextId>>
    /\ UNCHANGED <<form, now, observed, call, ret>>
    /\ view' = Page(<<"Save My Footprint">>, <<>>)

\* the save form asking for a name or an email, not for both
SaveWithEither(user_name, email) ==
    /\ calculated
    /\ IF user_name # "" \/ email # ""
       THEN \/ /\ save_footprint_ok(user_name, email, results)
               /\ notice' = "saved"
            \/ /\ save_footprint_raises
               /\ notice' = "save_error"
       ELSE /\ notice' = "save_warning"
            /\ UNCHANGED <<store, nextId>>
    /\ UNCHANGED <<calculated, results, form, now, observed, call, ret>>
    /\ view' = Page(<<"Save My Footprint">>, <<>>)

\* the save form starting the session afresh after a successful save
SaveEndingSession(user_name, email) ==
    /\ calculated
    /\ IF user_name # "" /\ email # ""
       THEN \/ /\ save_footprint_ok(user_name, email, results)
               /\ notice' = "saved"
               /\ calculated' = FALSE
               /\ results' = EmptyResults
            \/ /\ save_footprint_raises
               /\ notice' = "save_error"
               /\ UNCHANGED <<calculated, results>>
       ELSE /\ notice' = "save_warning"
            /\ UNCHANGED <<calculated, results, store, nextId>>
    /\ UNCHANGED <<form, now, observed, call, ret>>
    /\ view' = Page(<<"Save My Footprint">>, <<>>)

\* one run of the script with "Save My Footprint" pressed
Save(user_name, email) ==
    /\ calculated
    /\ IF user_name # "" /\ email # ""
       THEN \/ /\ save_footprint_ok(user_name, email, results)
               /\ notice' = "saved"
            \/ /\ save_footprint_raises
               /\ notice' = "save_error"
       ELSE /\ notice' = "save_warning"
            /\ UNCHANGED <<store, nextId>>
    /\ UNCHANGED <<calculated, results, form, now, observed, call, ret>>
    /\ view' = Page(<<"Save My Footprint">>, <<>>)

\* time passes
Tick ==
    /\ now < MaxClock
    /\ now' = now + 1
    /\ UNCHANGED <<calculated, results, form, store, nextId, notice, view, observed, call, ret>>

Names == {"", "Ann"}
Emails == {"", "a@example.org", "b@example.org"}

I(t, dist, sf, lf, el, gas, meals, country) == Input(t, R(dist), sf, lf, R(el), R(gas), meals, country)

\* the end-to-end example of the specification
Scenario == I("car_petrol", 100, 0, 0, 100, 0, <<2, 0, 0, 0, 0>>, "UK")

\* inputs of the whole application
SessionInputs ==
    { Scenario,
      I("car_diesel", 150, 52, 5, 200, 200, <<3, 2, 1, 0, 7>>, "India") }

InitApp ==
    /\ calculated = FALSE
    /\ results = EmptyResults
    /\ form = DefaultForm
    /\ store = <<>>
    /\ nextId = 1
    /\ now = 0
    /\ notice = "none"
    /\ view = FirstPage

Init ==
    /\ InitApp
    /\ observed = <<>>
    /\ call = NoCall
    /\ ret = <<>>

Submit == \E inp \in SessionInputs : Calculate(inp) /\ UNCHANGED observed

SaveForm == \E user_name \in Names, email \in Emails : Save(user_name, email)

\* "Search" pressed with an email typed in the text input
Search ==
    /\ \E search_email \in Emails : SearchByEmail(<<"Search">>, TRUE, search_email, FALSE)
    /\ UNCHANGED <<calculated, results, form, nextId, now, observed, call>>

\* another option of the selectbox chosen, where the selectbox is on the page
Select ==
    /\ view.search # <<>>
    /\ \E chosen \in 1..MaxId :
           /\ \E i \in 1..Len(view.search[1].options) : view.search[1].options[i] = chosen
           /\ chosen # view.search[1].selected_id
    /\ SearchByEmail(<<"Select a footprint to view details:">>, FALSE, view.search[1].email, FALSE)
    /\ UNCHANGED <<calculated, results, form, nextId, now, observed, call>>

\* "Delete Footprint ID: ..." pressed, where that button is on the page
DeleteClick ==
    /\ view.search # <<>>
    /\ SearchByEmail(DeleteLabel(view.search[1].selected_id), FALSE, view.search[1].email, TRUE)
    /\ UNCHANGED <<calculated, results, form, nextId, now, observed, call>>

\* delete_footprint called by a client of database.py
Delete ==
    \E footprint_id \in 1..MaxId :
        /\ call' = [fn |-> "delete_footprint", footprint_id |-> footprint_id]
        /\ \/ delete_footprint(footprint_id)
           \/ delete_footprint_raises
        /\ UNCHANGED <<calculated, results, form, nextId, now, notice, view, observed>>

\* one session of the application: every widget that sets off a run
Next == Submit \/ SaveForm \/ Search \/ Select \/ DeleteClick

Spec == Init /\ [][Next]_vars

-----------------------------------------------------------------------------
(* database.py called directly by its clients, in any order.               *)

\* the results dictionaries handed to save_footprint
SavedResults == { Bundle(inp, 0) : inp \in SessionInputs }

SaveCall ==
    \E user_name \in Names \ {""}, email \in Emails \ {""}, r \in SavedResults :
        /\ call' = [fn |-> "save_footprint", user_name |-> user_name, email |-> email,
                                            results |-> r]
        /\ \/ save_footprint_ok(user_name, email, r) /\ ret' = <<nextId>>
           \/ save_footprint_raises /\ ret' = <<>>
        /\ UNCHANGED <<calculated, results, form, now, notice, view, observed>>

NextDb == SaveCall \/ Delete \/ Tick

SpecDb == Init /\ [][NextDb]_vars

-----------------------------------------------------------------------------
(* The calculator alone: any sequence of form submissions.                 *)

FormInputs ==
    { Input(t, dist, fl[1], fl[2], en[1], en[2], meals, "UK") :
        t \in {TransportOptions[i] : i \in 1..Len(TransportOptions)},
        dist \in {R(0), R(100)},
        fl \in {<<0, 0>>, <<1, 0>>, <<2, 1>>, <<52, 5>>},
        en \in {<<R(0), R(0)>>, <<R(100), R(0)>>, <<R(100), R(200)>>},
        meals \in {<<0, 0, 0, 0, 0>>, <<2, 0, 0, 0, 0>>} }
    \cup SessionInputs
    \cup { I("public_transport", 0, 0, 0, 0, 0, <<0, 0, 0, 0, 0>>, "USA"),
           I("car_diesel", 400, 0, 5, 100, 0, <<0, 0, 0, 7, 7>>, "World") }
    \cup { I("motorcycle", 35, 2, 1, 45, 10, <<1, 2, 3, 4, MaxMeals>>, "Canada"),
           Input("car_electric", Q(5, 2), 3, 0, Q(905, 10), R(0), <<0, 1, 0, MaxMeals, 0>>, "EU") }

SubmitForm == \E inp \in FormInputs : Calculate(inp) /\ UNCHANGED observed

NextCalc == SubmitForm

SpecCalc == Init /\ [][NextCalc]_vars

-----------------------------------------------------------------------------
(* Two calculations compared: at any submission the history variable may   *)
(* keep the input and the outcome, to be compared with later ones.         *)

\* what a calculation produces, the time of day left out
Outcome(r) ==
    [ weekly_breakdown |-> r.weekly_breakdown,
      weekly_total     |-> r.weekly_total,
      annual_total     |-> r.annual_total,
      comparison       |-> r.comparison,
      recommendations  |-> r.recommendations ]

SubmitObserved ==
    \E inp \in SessionInputs :
        /\ Calculate(inp)
        /\ \/ observed' = observed
           \/ observed' = <<[input |-> inp, outcome |-> Outcome(results'), at |-> now]>>

SaveObserved == Save("Ann", "a@example.org")

NextDet == SubmitObserved \/ SaveObserved \/ Tick

SpecDet == Init /\ [][NextDet]_vars

-----------------------------------------------------------------------------
(* The functions of utilis.py called directly, once, on arguments drawn    *)
(* from the sets below.                                                    *)

MaxCategories == 5

FactorKeys == DOMAIN EMISSION_FACTORS
Countries == DOMAIN NATIONAL_AVERAGES

TransportCalls ==
    { [fn |-> "calculate_transportation_emissions", transport_type |-> t, distance |-> x] :
        t \in FactorKeys \cup {"bicycle", ""},
        x \in {R(0), R(1), R(100), Q(5, 2)} }

FoodCalls ==
    { [fn |-> "calculate_food_emissions", diet_type |-> t, meals_per_week |-> R(m)] :
        t \in FactorKeys \cup {"fish", ""},
        m \in {0, 1, 2, MaxMeals} }

HouseholdCalls ==
    { [fn |-> "calculate_household_emissions", electricity_kwh |-> el, gas_kwh |-> gas] :
        el \in {R(0), R(100), Q(905, 10)},
        gas \in {R(0), R(200), Q(1, 2)} }

\* multiples of the national average on, next to and between the band limits
Multiples ==
    { R(0), Q(49, 100), Q(1, 2), Q(51, 100), Q(4, 5), Q(81, 100), R(1), Q(101, 100),
      Q(6, 5), Q(121, 100), R(2), R(3) }

ComparisonCalls ==
    { [fn |-> "get_footprint_comparison",
       annual_footprint |-> RMul(Get(NATIONAL_AVERAGES, c, NATIONAL_AVERAGES["World"]), m),
       country |-> c] :
        c \in Countries \cup {"Atlantis", ""},
        m \in Multiples }

\* the keys get_recommendations reads, with a value on each limit and one over it
RuleKeys ==
    {"car_petrol", "car_diesel", "flight_short", "flight_long", "electricity",
     "natural_gas", "meat_beef", "meat_pork", "meat_chicken"}

AtLimit ==
    [ car_petrol |-> R(30), car_diesel |-> R(30), flight_short |-> R(50),
      flight_long |-> R(100), electricity |-> R(40), natural_gas |-> R(30),
      meat_beef |-> R(15), meat_pork |-> R(5), meat_chicken |-> R(0) ]

OverLimit ==
    [ car_petrol |-> Q(301, 10), car_diesel |-> R(31), flight_short |-> Q(501, 10),
      flight_long |-> R(101), electricity |-> Q(401, 10), natural_gas |-> Q(61, 2),
      meat_beef |-> Q(151, 10), meat_pork |-> R(6), meat_chicken |-> R(1) ]

EmissionsData ==
    { [k \in {x \in RuleKeys : level[x] # "absent"} |->
          IF level[k] = "at" THEN AtLimit[k] ELSE OverLimit[k]] :
        level \in [RuleKeys -> {"absent", "at", "over"}] }
    \cup { [k \in FactorKeys |-> R(0)] }
    \cup { [k \in FactorKeys |-> R(1)] }

RecommendationCalls ==
    { [fn |-> "get_recommendations", emissions_data |-> e] : e \in EmissionsData }

CategoryPool ==
    <<"Transportation", "Short Flights", "Long Flights", "Household Energy", "Diet",
      "Waste", "Water", "Goods">>

Breakdowns ==
    UNION { { [i \in 1..n |-> <<CategoryPool[i], v[i]>>] : v \in [1..n -> {R(0), Q(233, 10)}] } :
            n \in 0..MaxCategories }

FormatCalls ==
    { [fn |-> "format_emissions_for_download",
       data |-> [ weekly_breakdown |-> b,
                  weekly_total     |-> w,
                  annual_total     |-> RMul(w, R(52)),
                  comparison       |-> get_footprint_comparison(RMul(w, R(52)), c) ]] :
        b \in Breakdowns, w \in {R(0), Q(563, 10)}, c \in {"UK", "Atlantis"} }

InitUtils ==
    /\ InitApp
    /\ observed = <<>>
    /\ ret = <<>>
    /\ \/ call \in TransportCalls
       \/ call \in FoodCalls
       \/ call \in HouseholdCalls
       \/ call \in ComparisonCalls
       \/ call \in RecommendationCalls
       \/ call \in FormatCalls

\* the call returns value
Return(fn, value) ==
    /\ call.fn = fn
    /\ ret = <<>>
    /\ ret' = <<value>>
    /\ UNCHANGED <<calculated, results, form, store, nextId, now, notice, view, observed, call>>

CallTransport ==
    Return("calculate_transportation_emissions",
           calculate_transportation_emissions(call.transport_type, call.distance))

CallFood ==
    Return("calculate_food_emissions",
           calculate_food_emissions(call.diet_type, call.meals_per_week))

CallHousehold ==
    Return("calculate_household_emissions",
           calculate_household_emissions(call.electricity_kwh, call.gas_kwh))

CallComparison ==
    Return("get_footprint_comparison",
           get_footprint_comparison(call.annual_footprint, call.country))

CallRecommendations ==
    Return("get_recommendations", get_recommendations(call.emissions_data))

CallFormat ==
    Return("format_emissions_for_download", format_emissions_for_download(call.data))

NextUtils ==
    \/ CallTransport
    \/ CallFood
    \/ CallHousehold
    \/ CallComparison
    \/ CallRecommendations
    \/ CallFormat

SpecUtils == InitUtils /\ [][NextUtils]_vars

-----------------------------------------------------------------------------
(* Properties                                                              *)

BreakdownCategories ==
    <<"Transportation", "Short Flights", "Long Flights", "Household Energy", "Diet">>

\* the direct call of fn has returned
Returned(fn) == call.fn = fn /\ ret # <<>>

\* x > limit, for a whole limit, in whole numbers
Exceeds(x, limit) == x.n > limit * x.d

\* the band of a percentage by the strict limits 120, 100, 80, 50
BandOf(percentage) ==
    IF Exceeds(percentage, 120) THEN "high"
    ELSE IF Exceeds(percentage, 100) THEN "above_avg"
    ELSE IF Exceeds(percentage, 80) THEN "average"
    ELSE IF Exceeds(percentage, 50) THEN "below_avg"
    ELSE "low"

\* annual is exactly num/den times the average
IsMultiple(annual, average, num, den) == annual.n * den = num * annual.d * average.n

\* C1: after any sequence of calculations the stored weekly_total is the sum of
\* the five weekly_breakdown values (Transportation, Short Flights, Long Flights,
\* Household Energy, Diet) and the stored annual_total is weekly_total * 52.
C1_TotalsAreSums ==
    calculated =>
        /\ Keys(results.weekly_breakdown) = BreakdownCategories
        /\ results.weekly_total = RSum(Values(results.weekly_breakdown))
        /\ results.annual_total = RMul(results.weekly_total, R(52))

\* a result in which every one of the five categories contributes
C1_Witness ==
    /\ calculated
    /\ \A i \in 1..5 : Exceeds(results.weekly_breakdown[i][2], 0)
    /\ Exceeds(results.weekly_total, 0)

\* C2: get_footprint_comparison returns percentage = annual / national_avg * 100
\* and exactly one of five bands by strict comparisons taken top-down (> 120 high,
\* > 100 above_avg, > 80 average, > 50 below_avg, else low); an annual total of
\* exactly 1, 1.21, 0.81, 0.51, 0.49 times the average gives average, high,
\* average, below_avg, low, and a percentage of exactly 120, 100, 80, 50 falls
\* in the lower band.
C2_BandsByStrictLimits ==
    Returned("get_footprint_comparison") =>
        LET r == ret[1]
            a == call.annual_footprint
            avg == r.national_avg
        IN  /\ r.percentage = Q(a.n * 100, a.d * avg.n)
            /\ r.status = BandOf(r.percentage)
            /\ IsMultiple(a, avg, 1, 1) => r.status = "average"
            /\ IsMultiple(a, avg, 121, 100) => r.status = "high"
            /\ IsMultiple(a, avg, 81, 100) => r.status = "average"
            /\ IsMultiple(a, avg, 51, 100) => r.status = "below_avg"
            /\ IsMultiple(a, avg, 49, 100) => r.status = "low"
            /\ r.percentage = R(120) => r.status = "above_avg"
            /\ r.percentage = R(100) => r.status = "average"
            /\ r.percentage = R(80) => r.status = "below_avg"
            /\ r.percentage = R(50) => r.status = "low"

\* a footprint of exactly 120 percent of the average, reported above_avg
C2_Witness ==
    /\ Returned("get_footprint_comparison")
    /\ call.country = "UK"
    /\ ret[1].percentage = R(120)
    /\ ret[1].status = "above_avg"

\* C3: for a country that is no key of NATIONAL_AVERAGES, get_footprint_comparison
\* returns (no error) the "World" entry as national_avg, the percentage and the
\* band computed against it, and the country name it was given.
C3_UnknownCountryUsesWorld ==
    (Returned("get_footprint_comparison") /\ call.country \notin Countries) =>
        LET r == ret[1]
            a == call.annual_footprint
            world == NATIONAL_AVERAGES["World"]
        IN  /\ r.national_avg = world
            /\ r.percentage = Q(a.n * 100, a.d * world.n)
            /\ r.status = BandOf(Q(a.n * 100, a.d * world.n))
            /\ r.country = call.country
            /\ r.message[2] = call.country

\* an unknown country with a footprint of 1.21 times the World average
C3_Witness ==
    /\ Returned("get_footprint_comparison")
    /\ call.country = "Atlantis"
    /\ IsMultiple(call.annual_footprint, NATIONAL_AVERAGES["World"], 121, 100)
    /\ ret[1].status = "high"

\* every value of the mapping is zero
AllZero(e) == \A k \in DOMAIN e : e[k] = R(0)

\* C4: get_recommendations never returns an empty list, whatever keys the
\* mapping has or lacks; for an all-zero mapping it returns exactly the four
\* general recommendations in their fixed order.
C4_NeverEmpty ==
    Returned("get_recommendations") =>
        /\ Len(ret[1]) > 0
        /\ AllZero(call.emissions_data) =>
              /\ Len(ret[1]) = 4
              /\ ret[1] = GeneralAdvice

\* the mapping with every key present and zero, answered by the general list
C4_Witness ==
    /\ Returned("get_recommendations")
    /\ DOMAIN call.emissions_data = FactorKeys
    /\ AllZero(call.emissions_data)
    /\ ret[1] = GeneralAdvice

\* emissions_data.get(k, 0)
Amount(e, k) == IF k \in DOMAIN e THEN e[k] ELSE R(0)

\* the six rules in their order, each with whether it fires on e
Rules(e) ==
    << [advice |-> DrivingAdvice,
        fires  |-> Exceeds(Amount(e, "car_petrol"), 30) \/ Exceeds(Amount(e, "car_diesel"), 30)],
       [advice |-> FlightAdvice,
        fires  |-> Exceeds(Amount(e, "flight_short"), 50) \/ Exceeds(Amount(e, "flight_long"), 100)],
       [advice |-> ElectricityAdvice,
        fires  |-> Exceeds(Amount(e, "electricity"), 40)],
       [advice |-> GasAdvice,
        fires  |-> Exceeds(Amount(e, "natural_gas"), 30)],
       [advice |-> BeefAdvice,
        fires  |-> Exceeds(Amount(e, "meat_beef"), 15)],
       [advice |-> MeatFreeAdvice,
        fires  |-> Exceeds(RSum(<<Amount(e, "meat_beef"), Amount(e, "meat_pork"),
                                  Amount(e, "meat_chicken")>>), 20)] >>

\* the advice of the rules that fire, in rule order
FiredAdvice(e) ==
    LET Fires(rule) == rule.fires
        fired == SelectSeq(Rules(e), Fires)
    IN  [i \in 1..Len(fired) |-> fired[i].advice]

\* C5: get_recommendations returns exactly the messages of the rules that fire,
\* each once, in the order driving, flights, electricity, gas, beef, meat-free
\* days, a rule firing iff its strict limit is exceeded; the general messages
\* are returned only when no rule fires, never together with a rule's message.
C5_ExactlyTheFiredRules ==
    Returned("get_recommendations") =>
        LET fired == FiredAdvice(call.emissions_data)
        IN  /\ fired # <<>> => ret[1] = fired
            /\ fired = <<>> => ret[1] = GeneralAdvice
            /\ \A i, j \in 1..Len(ret[1]) : ret[1][i] = ret[1][j] => i = j
            /\ \A i, j \in 1..Len(ret[1]), g \in 1..Len(GeneralAdvice) :
                  ret[1][i] = GeneralAdvice[g] => ret[1] = GeneralAdvice

\* some rules fire and others, exactly on their limit, do not
C5_Witness ==
    /\ Returned("get_recommendations")
    /\ ret[1] = <<FlightAdvice, GasAdvice, MeatFreeAdvice>>
    /\ Amount(call.emissions_data, "car_petrol") = R(30)
    /\ Amount(call.emissions_data, "meat_beef") = R(15)

\* C6: format_emissions_for_download returns (number of breakdown categories) + 3
\* rows whatever the values: one (category, "Weekly", value) row per category in
\* breakdown order, then ("Total", "Weekly", weekly_total), ("Total", "Annual",
\* annual_total) and ("National Average", "Annual", national_avg).
C6_RowsOfExport ==
    Returned("format_emissions_for_download") =>
        LET rows == ret[1]
            data == call.data
            n == Len(data.weekly_breakdown)
        IN  /\ Len(rows) = n + 3
            /\ \A i \in 1..n :
                  rows[i] = [Category |-> data.weekly_breakdown[i][1],
                             Timeframe |-> "Weekly",
                             Emissions |-> data.weekly_breakdown[i][2]]
            /\ rows[n + 1] = [Category |-> "Total", Timeframe |-> "Weekly",
                              Emissions |-> data.weekly_total]
            /\ rows[n + 2] = [Category |-> "Total", Timeframe |-> "Annual",
                              Emissions |-> data.annual_total]
            /\ rows[n + 3] = [Category |-> "National Average", Timeframe |-> "Annual",
                              Emissions |-> data.comparison.national_avg]

\* five categories, some of them zero, exported as eight rows
C6_Witness ==
    /\ Returned("format_emissions_for_download")
    /\ Keys(call.data.weekly_breakdown) = BreakdownCategories
    /\ call.data.weekly_breakdown[2][2] = R(0)
    /\ call.data.weekly_breakdown[5][2] # R(0)
    /\ Len(ret[1]) = 8

DietSum(diet_inputs) ==
    RSum([i \in 1..Len(DietOptions) |->
             RMul(R(Item(diet_inputs, DietOptions[i])), EMISSION_FACTORS[DietOptions[i]])])

\* C8: Transportation = weekly_distance * factor(transport_mode), Household
\* Energy = electricity_kwh * 0.233 + gas_kwh * 0.184, Diet = the sum over the
\* five diet categories of meals * factor(category); car_petrol with 100 km,
\* 100 kWh of electricity, no gas, 2 beef meals and no flights gives 21.0, 23.3,
\* 12.0 and 0, weekly_total 56.3 and annual_total 2927.6.
C8_CategoryFormulas ==
    calculated =>
        /\ Item(results.weekly_breakdown, "Transportation")
              = RMul(form.weekly_distance, EMISSION_FACTORS[form.transport_type])
        /\ Item(results.weekly_breakdown, "Household Energy")
              = RAdd(RMul(form.electricity_kwh, Q(233, 1000)),
                     RMul(form.gas_kwh, Q(184, 1000)))
        /\ Item(results.weekly_breakdown, "Diet") = DietSum(form.diet_inputs)
        /\ form = Scenario =>
              /\ results.weekly_breakdown =
                    << <<"Transportation", R(21)>>,
                       <<"Short Flights", R(0)>>,
                       <<"Long Flights", R(0)>>,
                       <<"Household Energy", Q(233, 10)>>,
                       <<"Diet", R(12)>> >>
              /\ results.weekly_total = Q(563, 10)
              /\ results.annual_total = Q(29276, 10)

\* the end-to-end example, calculated
C8_Witness ==
    /\ calculated
    /\ form = Scenario
    /\ results.annual_total = Q(29276, 10)

C10_UnknownKeyIsZero ==
    /\ (Returned("calculate_transportation_emissions") /\ call.transport_type \notin FactorKeys)
          => ret[1] = R(0)
    /\ (Returned("calculate_food_emissions") /\ call.diet_type \notin FactorKeys)
          => ret[1] = R(0)

\* 100 km by a mode the table does not know
C10_Witness ==
    /\ Returned("calculate_transportation_emissions")
    /\ call.transport_type = "bicycle"
    /\ call.distance = R(100)
    /\ ret[1] = R(0)

\* the values of results r that a row f of carbon_footprints holds
HoldsValues(f, r) ==
    /\ f.weekly_total = r.weekly_total
    /\ f.annual_total = r.annual_total
    /\ f.transport_emissions = Item(r.weekly_breakdown, "Transportation")
    /\ f.short_flights_emissions = Item(r.weekly_breakdown, "Short Flights")
    /\ f.long_flights_emissions = Item(r.weekly_breakdown, "Long Flights")
    /\ f.household_emissions = Item(r.weekly_breakdown, "Household Energy")
    /\ f.diet_emissions = Item(r.weekly_breakdown, "Diet")
    /\ f.country = r.comparison.country

\* the ids of the rows of a table
Ids(rows) == {rows[i].id : i \in 1..Len(rows)}

\* C11: a run in which saving fails reports the failure and leaves the
\* calculated flag, the stored results and the table as they were, after one
\* attempt at most; a save that succeeds right after the failure stores the
\* values of those same results, with no calculation in between.
C11_SaveFailureKeepsResults ==
    [][ /\ notice' = "save_error" =>
            /\ calculated' = calculated
            /\ results' = results
            /\ store' = store
            /\ nextId' \in {nextId, nextId + 1}
        /\ (notice = "save_error" /\ notice' = "saved") =>
            /\ results' = results
            /\ Len(store') = Len(store) + 1
            /\ HoldsValues(store'[Len(store')], results) ]_vars

\* a save has failed in a session that had saved a footprint before
C11_Witness == notice = "save_error" /\ calculated /\ store # <<>>

\* a direct call of save_footprint has returned in this step
SaveReturned == call'.fn = "save_footprint" /\ ret' # <<>> /\ nextId' # nextId

\* C12: the rows of the table have pairwise distinct ids at all times; a call
\* of save_footprint that returns appends exactly one row to the table and
\* returns the id of that row, which no row of the table had before the call.
C12_FreshDistinctIds ==
    /\ [](\A i, j \in 1..Len(store) : i # j => store[i].id # store[j].id)
    /\ [][ SaveReturned =>
               /\ Len(store') = Len(store) + 1
               /\ SubSeq(store', 1, Len(store)) = store
               /\ ret' = <<store'[Len(store')].id>>
               /\ ret'[1] \notin Ids(store) ]_vars

\* save_footprint has returned id 3 for the second row of a table whose
\* first row has id 2: the row of id 1 was deleted, or its insert failed
C12_Witness ==
    /\ call.fn = "save_footprint"
    /\ Len(store) = 2
    /\ ret = <<3>>
    /\ store[1].id = 2
    /\ store[2].id = 3

\* a direct call of delete_footprint has returned in this step
DeleteReturned == call'.fn = "delete_footprint" /\ ret' # <<>> /\ now' = now

\* C13: a call delete_footprint(id) that returns, returns True exactly when
\* the table held a row of that id before the call; after True that id is
\* found neither by id, nor by any email, nor in the list of all footprints;
\* after False the table is as it was.
C13_DeleteReturnsFound ==
    [][ \A id \in 1..MaxId :
            (DeleteReturned /\ call'.footprint_id = id) =>
                /\ ret'[1] = (id \in Ids(store))
                /\ ret'[1] =>
                       /\ get_footprint_by_id(id)' = <<>>
                       /\ \A email \in Emails : id \notin Ids(get_footprints_by_email(email)')
                       /\ id \notin Ids(get_all_footprints')
                /\ ~ret'[1] => store' = store ]_vars

\* delete_footprint has returned True and left one row of two
C13_Witness == call.fn = "delete_footprint" /\ ret = <<TRUE>> /\ Len(store) = 1

\* C14: no row is updated in place: a row that is in the table before and
\* after a step, as told by its id, has the same value in every field.
C14_NeverUpdatedInPlace ==
    [][ \A i \in 1..Len(store), j \in 1..Len(store') :
            store'[j].id = store[i].id => store'[j] = store[i] ]_vars

\* the first row has outlived the passing of time, the insert of a second
\* row and the delete of that second row
C14_Witness ==
    /\ call.fn = "delete_footprint"
    /\ call.footprint_id = 2
    /\ ret = <<TRUE>>
    /\ Len(store) = 1
    /\ store[1].id = 1
    /\ now > store[1].timestamp

\* dictionary d has the id, the name, the email and the values of row f
SameValues(d, f) ==
    /\ d.id = f.id
    /\ d.user_name = f.user_name
    /\ d.email = f.email
    /\ d.weekly_total = f.weekly_total
    /\ d.annual_total = f.annual_total
    /\ d.transport_emissions = f.transport_emissions
    /\ d.short_flights_emissions = f.short_flights_emissions
    /\ d.long_flights_emissions = f.long_flights_emissions
    /\ d.household_emissions = f.household_emissions
    /\ d.diet_emissions = f.diet_emissions
    /\ d.country = f.country

\* the dictionaries dicts are the rows, one for one and in their order
SameRows(dicts, rows) ==
    /\ Len(dicts) = Len(rows)
    /\ \A i \in 1..Len(rows) : SameValues(dicts[i], rows[i])

\* the rows of the table that have the email
WithEmail(email) == LET P(f) == f.email = email IN SelectSeq(store, P)

\* C15: get_footprints_by_email(email) returns the rows of the table that
\* have that email, all of them and no other, and get_all_footprints returns
\* every row of the table; the row of a save is returned, from the save on,
\* with the breakdown values, the totals and the country of the results it
\* was saved from.
C15_ReadsReturnTheRows ==
    /\ [](/\ \A email \in Emails :
                /\ SameRows(get_footprints_by_email(email), WithEmail(email))
                /\ \A i \in 1..Len(store) :
                       (store[i].email = email) <=>
                           (store[i].id \in Ids(get_footprints_by_email(email)))
          /\ SameRows(get_all_footprints, store))
    /\ [][ \A email \in Emails :
               LET before == get_footprints_by_email(email)
                   after == get_footprints_by_email(email)'
               IN  /\ \A i \in 1..Len(before), j \in 1..Len(after) :
                          after[j].id = before[i].id => after[j] = before[i]
                   /\ (SaveReturned /\ call'.email = email) =>
                          \E j \in 1..Len(after) :
                              /\ after[j].id = ret'[1]
                              /\ HoldsValues(after[j], call'.results) ]_vars

\* the table holds two rows saved with different emails from different
\* results, the second one just saved
C15_Witness ==
    /\ call.fn = "save_footprint"
    /\ ret = <<2>>
    /\ Len(store) = 2
    /\ store[1].email # store[2].email
    /\ store[1].weekly_total # store[2].weekly_total

\* C16: in a session the table changes only by a run of the save form, in
\* a session that has calculated, with a name and an email that are not
\* empty: the run appends one row, which holds the values of the results
\* stored in the session; a run that warns of a missing name or email
\* leaves the table as it was; before the first calculation nothing is
\* saved and the save form reports nothing.
C16_SavedOnlyOnRequest ==
    /\ [](~calculated =>
              /\ store = <<>>
              /\ notice \notin {"saved", "save_error", "save_warning"})
    /\ [][ /\ store' # store =>
               /\ calculated
               /\ view'.trigger = <<"Save My Footprint">>
               /\ notice' = "saved"
               /\ results' = results
               /\ Len(store') = Len(store) + 1
               /\ SubSeq(store', 1, Len(store)) = store
               /\ store'[Len(store')].user_name # ""
               /\ store'[Len(store')].email # ""
               /\ HoldsValues(store'[Len(store')], results)
           /\ notice' = "save_warning" => store' = store ]_vars

\* two rows saved in one session: the second from the results now stored,
\* the first from the results of an earlier calculation
C16_Witness ==
    /\ notice = "saved"
    /\ Len(store) = 2
    /\ HoldsValues(store[2], results)
    /\ ~HoldsValues(store[1], results)

\* C17: after any sequence of calculations the stored comparison is the one
\* of the stored annual total and of the country submitted last: it has that
\* country, the entry of that country in NATIONAL_AVERAGES, the percentage
\* annual_total / national_avg * 100 and the band of that percentage.
C17_ComparisonOfLastInput ==
    calculated =>
        LET c == results.comparison
            a == results.annual_total
            avg == NATIONAL_AVERAGES[form.country]
        IN  /\ c.country = form.country
            /\ c.national_avg = avg
            /\ c.percentage = Q(a.n * 100, a.d * avg.n)
            /\ c.status = BandOf(c.percentage)

\* a calculation for India after a remembered calculation for the UK that
\* fell in another band
C17_Witness ==
    /\ calculated
    /\ observed # <<>>
    /\ observed[1].input.country = "UK"
    /\ form.country = "India"
    /\ results.comparison.country = "India"
    /\ results.comparison.status # observed[1].outcome.comparison.status

\* C18: once the user has searched by email and pressed the delete button of
\* the selected footprint, delete_footprint has been called with the selected
\* id: the run set off by the button leaves no row of that id in the table.
C18_DeleteButtonDeletes ==
    \A id \in 1..MaxId : view.trigger = DeleteLabel(id) => id \notin Ids(store)

\* what the code does instead: no run of a session takes a row from the table
NoRunDeletes == [][SubSeq(store', 1, Len(store)) = store]_vars

\* the keys of st.session_state.results after a calculation
ResultKeys ==
    {"weekly_total", "annual_total", "weekly_breakdown", "comparison",
     "recommendations", "timestamp"}

\* C19: a session starts with calculated False and results empty; calculated
\* becomes True only in a run set off by the calculator form and is never
\* False again; while calculated is False results stays empty, and while it
\* is True results has the keys weekly_total, annual_total, weekly_breakdown,
\* comparison, recommendations and timestamp, the breakdown has exactly the
\* five categories and the list of recommendations is not empty.
C19_CalculatedMeansResults ==
    /\ ~calculated /\ results = EmptyResults
    /\ [](IF calculated
          THEN /\ DOMAIN results = ResultKeys
               /\ Len(results.weekly_breakdown) = 5
               /\ Keys(results.weekly_breakdown) = BreakdownCategories
               /\ Len(results.recommendations) > 0
          ELSE results = EmptyResults)
    /\ [][ /\ calculated => calculated'
           /\ (~calculated /\ calculated') =>
                  /\ view'.trigger = <<"Calculate My Footprint">>
                  /\ notice' = "calculated" ]_vars

\* a session that has calculated, with several recommendations, and has
\* saved a footprint since: calculated is still True
C19_Witness ==
    /\ calculated
    /\ notice = "saved"
    /\ DOMAIN results = ResultKeys
    /\ Len(results.recommendations) > 1

====
